---- MODULE Spec2Model ----
(***************************************************************************)
(* A model of src/modal_app.py: the request validator, the prompt builder, *)
(* the hook extractor and the request handler of the text generation       *)
(* service.                                                                *)
(*                                                                         *)
(* Python values are records tagged with their type (field t).  A request  *)
(* field that is not in the mapping has t = "absent".  Texts that the code *)
(* splits and strips are sequences of one-character strings.  Exception    *)
(* messages are sequences of tokens (a fixed phrase or a number), so that  *)
(* the substring tests of the code are computed, not assumed.  A dict of   *)
(* the response is a record with the set of the keys it has.               *)
(*                                                                         *)
(* Four specifications: Spec is the handler generate(); SpecValidate,      *)
(* SpecHook and SpecPrompt apply validate_input, extract_hook and          *)
(* build_main_prompt to every argument of a bounded set.                   *)
(***************************************************************************)
EXTENDS Integers, Sequences, FiniteSets, TLC

VARIABLES
    pc,           \* position of the handler / of the function under test
    arg,          \* argument of the function under test
    ret,          \* its return value
    API_KEY,      \* the configured shared secret ("" when none)
    request,      \* the incoming request: http headers and event body
    input_data,   \* event.get("input", {})
    calls,        \* the adapter invocations made so far, in order
    script,       \* text returned by the main generation
    tokens_used,  \* local tokens_used of generate()
    output,       \* the output dict under construction
    voice_attempt, \* <<>>, or the one result of the call expression of line 455
    response      \* what generate() returns

vars == <<pc, arg, ret, API_KEY, request, input_data, calls, script,
          tokens_used, output, voice_attempt, response>>

(***************************************************************************)
(* Python values                                                           *)
(***************************************************************************)
Absent == [t |-> "absent", s |-> ""]
Str(s) == [t |-> "str", s |-> s]
\* the JSON array [s]: a non-empty, unhashable value
List(s) == [t |-> "list", s |-> s]
Bool(b) == [t |-> "bool", s |-> IF b THEN "True" ELSE "False"]

NoInt == [t |-> "absent", n |-> 0]
Int_(n) == [t |-> "int", n |-> n]
\* True and False are ints in Python: isinstance(True, int), True == 1
BoolInt(b) == [t |-> "bool", n |-> IF b THEN 1 ELSE 0]
Float(n) == [t |-> "float", n |-> n]
StrInt(n) == [t |-> "str", n |-> n]

\* bool(v) for a value that is present
Truthy(v) ==
    CASE v.t = "absent" -> FALSE
      [] v.t = "str" -> v.s # ""
      [] v.t = "bool" -> v.s = "True"
      [] v.t = "list" -> TRUE

\* hash(v) succeeds
Hashable(v) == v.t # "list"

\* v in S, for a set S of strings and a hashable v
InSet(v, S) == v.t = "str" /\ v.s \in S

(***************************************************************************)
(* Lookup tables and enumerations                                          *)
(***************************************************************************)
LENGTH_TO_TOKENS == ("20s" :> 100) @@ ("30s" :> 150) @@ ("45s" :> 225) @@ ("60s" :> 300)

LENGTH_TO_WORDS == ("20s" :> "30-50") @@ ("30s" :> "45-75") @@ ("45s" :> "70-110") @@ ("60s" :> "90-150")

VALID_LENGTHS == {"20s", "30s", "45s", "60s"}

VALID_TONES == {"neutral", "curious", "dramatic", "serious", "funny", "inspirational"}

VALID_HOOK_STYLES == {"question", "shock", "bold claim", "story"}

(***************************************************************************)
(* Messages: sequences of tokens, a fixed phrase or a formatted number     *)
(***************************************************************************)
Word(s) == [k |-> "w", s |-> s, n |-> 0]
Num(n) == [k |-> "n", s |-> "", n |-> n]

(***************************************************************************)
(* validate_input                                                          *)
(***************************************************************************)
\* return False, msg, "VALIDATION_ERROR"
Reject(msg) == [raised |-> "", ok |-> FALSE, msg |-> msg, code |-> "VALIDATION_ERROR"]

\* return True, None, None
Accept == [raised |-> "", ok |-> TRUE, msg |-> <<Word("None")>>, code |-> "None"]

\* `x in <set>` with an unhashable x raises TypeError before any return
RaiseUnhashable(v) ==
    [raised |-> "TypeError", ok |-> FALSE,
     msg |-> <<Word("unhashable type:"), Word(v.t)>>, code |-> "None"]

\* isinstance(max_tokens, int)
IsInt(m) == m.t \in {"int", "bool"}

\* the checks of lines 59-89, everything before the lookup of the budget
CheckFields(d) ==
    IF d.t # "dict" THEN Reject(<<Word("Input must be a dictionary")>>)
    ELSE IF d.topic.t = "absent" \/ ~Truthy(d.topic)
        THEN Reject(<<Word("Field 'topic' is required and cannot be empty")>>)
    ELSE IF d.length.t = "absent" THEN Reject(<<Word("Field 'length' is required")>>)
    ELSE IF ~Hashable(d.length) THEN RaiseUnhashable(d.length)
    ELSE IF ~InSet(d.length, VALID_LENGTHS)
        THEN Reject(<<Word("Field 'length' must be one of"), Word("VALID_LENGTHS")>>)
    ELSE IF d.tone.t = "absent" THEN Reject(<<Word("Field 'tone' is required")>>)
    ELSE IF ~Hashable(d.tone) THEN RaiseUnhashable(d.tone)
    ELSE IF ~InSet(d.tone, VALID_TONES)
        THEN Reject(<<Word("Field 'tone' must be one of"), Word("VALID_TONES")>>)
    ELSE IF d.hook_style.t = "absent"
        THEN Reject(<<Word("Field 'hook_style' is required")>>)
    ELSE IF ~Hashable(d.hook_style) THEN RaiseUnhashable(d.hook_style)
    ELSE IF ~InSet(d.hook_style, VALID_HOOK_STYLES)
        THEN Reject(<<Word("Field 'hook_style' must be one of"), Word("VALID_HOOK_STYLES")>>)
    ELSE IF d.max_tokens.t = "absent"
        THEN Reject(<<Word("Field 'max_tokens' is required")>>)
    ELSE IF ~IsInt(d.max_tokens) \/ d.max_tokens.n <= 0
        THEN Reject(<<Word("Field 'max_tokens' must be a positive integer")>>)
    ELSE Accept

\* a validator that forgets the cross-field rule
validate_input_NoCanon(d) == CheckFields(d)

validate_input(d) ==
    LET r == CheckFields(d)
    IN IF ~r.ok THEN r
       ELSE IF d.max_tokens.n # LENGTH_TO_TOKENS[d.length.s]
           THEN Reject(<<Word("Field 'max_tokens' must be"),
                         Num(LENGTH_TO_TOKENS[d.length.s]),
                         Word("for length"), Word(d.length.s)>>)
       ELSE Accept

(***************************************************************************)
(* The inputs of the validator                                             *)
(***************************************************************************)
TopicValues == {Absent, Str(""), Str("cats"), List("cats")}

LengthValues == {Absent, List("20s"), Str("10s")} \cup {Str(l) : l \in VALID_LENGTHS}

ToneValues == {Absent, List("funny"), Str("angry"), Str("neutral"), Str("funny")}

HookValues == {Absent, List("story"), Str("rhyme"), Str("question"), Str("bold claim")}

\* token budgets around every canonical value, and the non-positive ones
MaxDelta == 1

TokenNumbers ==
    {-1, 0, 1} \cup {LENGTH_TO_TOKENS[l] + k : l \in VALID_LENGTHS, k \in (0 - MaxDelta)..MaxDelta}

MaxTokensValues ==
    {NoInt, BoolInt(TRUE), BoolInt(FALSE), Float(100), StrInt(150)}
        \cup {Int_(n) : n \in TokenNumbers}

Dict(topic, length, tone, hook_style, max_tokens, gvs) ==
    [t |-> "dict", s |-> "", topic |-> topic, length |-> length, tone |-> tone,
     hook_style |-> hook_style, max_tokens |-> max_tokens,
     generate_voice_script |-> gvs]

\* a JSON string or array given where the mapping is expected
NonDict(t, s) ==
    [t |-> t, s |-> s, topic |-> Absent, length |-> Absent, tone |-> Absent,
     hook_style |-> Absent, max_tokens |-> NoInt, generate_voice_script |-> Absent]

EmptyDict == Dict(Absent, Absent, Absent, Absent, NoInt, Absent)

ValidatorInputs ==
    {Dict(tp, l, tn, h, m, Absent) :
        tp \in TopicValues, l \in LengthValues, tn \in ToneValues,
        h \in HookValues, m \in MaxTokensValues}
    \cup {NonDict("str", "abc"), NonDict("str", ""), NonDict("list", "abc")}

Idle == "-"

InitValidate ==
    /\ pc = "call"
    /\ arg \in ValidatorInputs
    /\ ret = Idle
    /\ API_KEY = Idle /\ request = Idle /\ input_data = Idle
    /\ calls = <<>> /\ script = Idle /\ tokens_used = 0
    /\ output = Idle /\ response = Idle /\ voice_attempt = <<>>

CallValidateInput ==
    /\ pc = "call"
    /\ ret' = validate_input(arg)
    /\ pc' = "returned"
    /\ UNCHANGED <<voice_attempt, arg, API_KEY, request, input_data, calls, script,
                   tokens_used, output, response>>

NextValidate == CallValidateInput

SpecValidate == InitValidate /\ [][NextValidate]_vars

(***************************************************************************)
(* Text helpers: str.split, str.strip, len(text.split())                   *)
(***************************************************************************)
IsSpace(ch) == ch \in {" ", "\n"}

\* s.split(c): the pieces between the occurrences of c, at least one piece
RECURSIVE Split(_, _)
Split(s, c) ==
    IF \A i \in 1..Len(s) : s[i] # c THEN <<s>>
    ELSE LET i == CHOOSE k \in 1..Len(s) : s[k] = c /\ \A j \in 1..(k - 1) : s[j] # c
         IN <<SubSeq(s, 1, i - 1)>> \o Split(SubSeq(s, i + 1, Len(s)), c)

\* s.strip()
Strip(s) ==
    LET keep == {i \in 1..Len(s) : ~IsSpace(s[i])}
    IN IF keep = {} THEN <<>>
       ELSE LET lo == CHOOSE i \in keep : \A j \in keep : i <= j
                hi == CHOOSE i \in keep : \A j \in keep : j <= i
            IN SubSeq(s, lo, hi)

\* len(text.split()): the number of maximal runs of non-whitespace
count_words(s) ==
    Cardinality({i \in 1..Len(s) : ~IsSpace(s[i]) /\ (i = 1 \/ IsSpace(s[i - 1]))})

(***************************************************************************)
(* extract_hook                                                            *)
(***************************************************************************)
HOOK_FALLBACK_CHARS == 100

\* the loop over lines: the first line whose strip() is not empty, stripped
FirstNonEmptyLine(lines) ==
    LET full == {i \in 1..Len(lines) : Strip(lines[i]) # <<>>}
    IN IF full = {} THEN <<>>
       ELSE Strip(lines[CHOOSE i \in full : \A j \in full : i <= j])

\* script[:n]
Prefix(s, n) == SubSeq(s, 1, IF Len(s) < n THEN Len(s) ELSE n)

extract_hook(text) ==
    LET lines == Split(text, "\n")
        first_line == IF Strip(lines[1]) # <<>> THEN Strip(lines[1])
                      ELSE FirstNonEmptyLine(lines)
        \* sentences = script.split('.') is never an empty list
        sentence == IF first_line # <<>> THEN first_line
                    ELSE Strip(Split(text, ".")[1]) \o <<".">>
    IN IF sentence # <<>> THEN sentence ELSE Prefix(text, HOOK_FALLBACK_CHARS)

MaxLen == 4

Alphabet == {"a", " ", "\n", "."}

Texts == UNION {[1..n -> Alphabet] : n \in 0..MaxLen}

InitHook ==
    /\ pc = "call"
    /\ arg \in Texts
    /\ ret = Idle
    /\ API_KEY = Idle /\ request = Idle /\ input_data = Idle
    /\ calls = <<>> /\ script = Idle /\ tokens_used = 0
    /\ output = Idle /\ response = Idle /\ voice_attempt = <<>>

CallExtractHook ==
    /\ pc = "call"
    /\ ret' = extract_hook(arg)
    /\ pc' = "returned"
    /\ UNCHANGED <<voice_attempt, arg, API_KEY, request, input_data, calls, script,
                   tokens_used, output, response>>

NextHook == CallExtractHook

SpecHook == InitHook /\ [][NextHook]_vars

(***************************************************************************)
(* build_hook_prompt, build_main_prompt: a prompt is the sequence of the   *)
(* template's fixed pieces and the values filled in                        *)
(***************************************************************************)
build_hook_prompt(topic, hook_style, tone) ==
    CASE hook_style = "shock" -> <<"Open with a surprising or shocking fact about ", topic>>
      [] hook_style = "bold claim" ->
            <<"Make a bold, attention-grabbing statement about ", topic>>
      [] hook_style = "story" ->
            <<"Begin with a brief, engaging story or anecdote related to ", topic>>
      [] OTHER -> <<"Start with a thought-provoking question about ", topic>>

tone_instructions ==
    ("neutral" :> "Use a balanced, informative tone")
    @@ ("curious" :> "Maintain a sense of wonder and curiosity")
    @@ ("dramatic" :> "Use dramatic language and emphasis")
    @@ ("serious" :> "Keep a serious, authoritative tone")
    @@ ("funny" :> "Include humor and light-heartedness")
    @@ ("inspirational" :> "Be uplifting and motivational")

\* tone_instructions.get(tone, 'neutral'): the default is the word itself
ToneInstruction(tone) ==
    IF tone \in DOMAIN tone_instructions THEN tone_instructions[tone] ELSE "neutral"

\* word_count or LENGTH_TO_WORDS.get(length, "30-50"); "" stands for None too
WordRange(word_count, length) ==
    IF word_count # "" THEN word_count
    ELSE IF length \in DOMAIN LENGTH_TO_WORDS THEN LENGTH_TO_WORDS[length]
    ELSE "30-50"

BrandingText(brand_name, include_branding) ==
    IF include_branding
    THEN <<"\n- Naturally mention '", brand_name,
           "' once in the content if it fits organically">>
    ELSE <<>>

build_main_prompt(topic, length, tone, hook_style, word_count, brand_name, include_branding) ==
    <<"Generate a ", length, " video script about: ", topic, "\n\nRequirements:\n- ">>
    \o build_hook_prompt(topic, hook_style, tone)
    \o <<"\n- Maintain a ", ToneInstruction(tone), " tone throughout",
         "\n- Target word count: ", WordRange(word_count, length), " words",
         "\n- Format: Start with the hook, then continue with the main content",
         "\n- Make it engaging, clear, and suitable for video narration",
         "\n- Keep sentences concise and punchy\n">>
    \o BrandingText(brand_name, include_branding)
    \o <<"\n\nOutput only the script text, starting with the hook line, then the main content.">>

PromptArgs ==
    [topic : {"cats", "the new model"},
     length : VALID_LENGTHS \cup {"90s"},
     tone : VALID_TONES \cup {"angry", ""},
     hook_style : VALID_HOOK_STYLES \cup {"rhyme"},
     word_count : {"", "10-20"},
     brand_name : {"Autopostai.Video"},
     include_branding : BOOLEAN]

InitPrompt ==
    /\ pc = "call"
    /\ arg \in PromptArgs
    /\ ret = Idle
    /\ API_KEY = Idle /\ request = Idle /\ input_data = Idle
    /\ calls = <<>> /\ script = Idle /\ tokens_used = 0
    /\ output = Idle /\ response = Idle /\ voice_attempt = <<>>

CallBuildMainPrompt ==
    /\ pc = "call"
    /\ ret' = build_main_prompt(arg.topic, arg.length, arg.tone, arg.hook_style,
                                arg.word_count, arg.brand_name, arg.include_branding)
    /\ pc' = "returned"
    /\ UNCHANGED <<voice_attempt, arg, API_KEY, request, input_data, calls, script,
                   tokens_used, output, response>>

NextPrompt == CallBuildMainPrompt

SpecPrompt == InitPrompt /\ [][NextPrompt]_vars

(***************************************************************************)
(* Exceptions and the substring tests on their text                        *)
(***************************************************************************)
Exc(type, msg) == [type |-> type, msg |-> msg]

\* s.lower() of the phrases that occur in exception texts
Lower(s) ==
    CASE s = "Rate limit reached for requests" -> "rate limit reached for requests"
      [] s = "RATE LIMIT" -> "rate limit"
      [] s = "Rate limit exceeded" -> "rate limit exceeded"
      [] s = "Error code: 429" -> "error code: 429"
      [] s = "Connection error." -> "connection error."
      [] s = "The model gpt-x does not exist" -> "the model gpt-x does not exist"
      [] s = "Request timed out." -> "request timed out."
      [] s = "Model error:" -> "model error:"
      [] s = "Generated" -> "generated"
      [] s = "'NoneType' object has no attribute 'strip'" ->
            "'nonetype' object has no attribute 'strip'"
      [] OTHER -> s

\* the needles "rate limit", "429" and "model" that occur in a lowered phrase
NeedlesIn(l) ==
    CASE l \in {"rate limit reached for requests", "rate limit", "rate limit exceeded"} ->
            {"rate limit"}
      [] l = "error code: 429" -> {"429"}
      [] l \in {"the model gpt-x does not exist", "model error:"} -> {"model"}
      [] OTHER -> {}

\* the decimal digits of n contain 4, 2, 9 in a row
Has429(n) == \E k \in 0..6 : (n \div (10 ^ k)) % 1000 = 429

\* needle in str(e).lower()  (a number formats to its digits)
Contains(msg, needle) ==
    \E i \in 1..Len(msg) :
        IF msg[i].k = "n" THEN needle = "429" /\ Has429(msg[i].n)
        ELSE needle \in NeedlesIn(Lower(msg[i].s))

IsRateLimitText(msg) == Contains(msg, "rate limit") \/ Contains(msg, "429")

\* a wrapper that re-raises the adapter's exception text unchanged
WrapAdapterError_NoPrefix(e) ==
    IF IsRateLimitText(e.msg) THEN Exc("Exception", <<Word("Rate limit exceeded")>>)
    ELSE Exc("Exception", e.msg)

\* the except clause of generate_script and generate_voice_script
WrapAdapterError(e) ==
    IF IsRateLimitText(e.msg) THEN Exc("Exception", <<Word("Rate limit exceeded")>>)
    ELSE Exc("Exception", <<Word("Model error:")>> \o e.msg)

(***************************************************************************)
(* The completion adapter: what client.chat.completions.create can do      *)
(***************************************************************************)
\* a completion with text and usage.total_tokens
Completion(text, tokens) == [kind |-> "ok", text |-> text, tokens |-> tokens, msg |-> <<>>]
\* a completion whose message content is None
NullCompletion == [kind |-> "null", text |-> <<>>, tokens |-> 0, msg |-> <<>>]
\* the call raises
Failure(msg) == [kind |-> "fail", text |-> <<>>, tokens |-> 0, msg |-> msg]

VOICE_MAX_TOKENS == 400

AdapterTexts == {<<" ", "a", " ", "a", ".", "\n", "a", "\n">>, <<" ", "\n">>}

\* usages around every budget, and one whose digits read 429
AdapterUsages ==
    {b + k : b \in {LENGTH_TO_TOKENS[l] : l \in VALID_LENGTHS} \cup {VOICE_MAX_TOKENS},
             k \in (0 - MaxDelta)..MaxDelta}
    \cup {429}

AdapterFailures ==
    {<<Word("Rate limit reached for requests")>>, <<Word("RATE LIMIT")>>,
     <<Word("Error code: 429")>>, <<Word("Connection error.")>>,
     <<Word("The model gpt-x does not exist")>>, <<Word("Request timed out.")>>}

AdapterOutcomes ==
    {Completion(t, n) : t \in AdapterTexts, n \in AdapterUsages}
    \cup {NullCompletion} \cup {Failure(m) : m \in AdapterFailures}

(***************************************************************************)
(* generate_script, generate_voice_script                                  *)
(***************************************************************************)
Returned(text, tokens) == [raised |-> FALSE, text |-> text, tokens |-> tokens, exc |-> Exc("", <<>>)]
Raised(e) == [raised |-> TRUE, text |-> <<>>, tokens |-> 0, exc |-> e]

\* what the try block raises when the adapter did not return a usable text
AdapterException(o) ==
    IF o.kind = "fail" THEN Exc("Exception", o.msg)
    ELSE Exc("AttributeError", <<Word("'NoneType' object has no attribute 'strip'")>>)

generate_script(max_tokens, o) ==
    IF o.kind # "ok" THEN Raised(WrapAdapterError(AdapterException(o)))
    ELSE IF o.tokens > max_tokens
        THEN Raised(WrapAdapterError(
                 Exc("ValueError", <<Word("Generated"), Num(o.tokens),
                                     Word("tokens, exceeds limit of"), Num(max_tokens)>>)))
    ELSE Returned(Strip(o.text), o.tokens)

generate_voice_script(o) ==
    IF o.kind # "ok" THEN Raised(WrapAdapterError(AdapterException(o)))
    ELSE Returned(Strip(o.text), o.tokens)

(***************************************************************************)
(* The request handler generate()                                          *)
(***************************************************************************)
\* a dict of the response: the keys it has and their values
NoOutput ==
    [keys |-> {}, script |-> <<>>, hook |-> <<>>, word_count |-> 0,
     estimated_duration |-> "", tokens_used |-> 0, voice_script |-> <<>>,
     voice_word_count |-> 0, voice_script_error |-> <<>>, error |-> <<>>, code |-> ""]

ErrorResponse(msg, code) ==
    [NoOutput EXCEPT !.keys = {"error", "code"}, !.error = msg, !.code = code]

\* the headers dict: the request's headers, then the event body's "headers"
\* (a dict, or a string that parses to one) on top of them
Headers(r) ==
    IF r.event_headers.kind \in {"dict", "str"} /\ r.event_headers.key # "<none>"
    THEN r.event_headers.key
    ELSE r.http_key

\* every key of headers is lower case, so .get("X-Api-Key") finds nothing
validate_api_key(key) ==
    IF API_KEY = "" THEN TRUE ELSE key = API_KEY

\* `not input_data`
Falsy(d) ==
    \/ d.t = "dict" /\ d = EmptyDict
    \/ d.t = "str" /\ d.s = ""

\* the two except clauses of generate()
HandlerError(e) ==
    IF e.type = "ValueError" THEN ErrorResponse(e.msg, "VALIDATION_ERROR")
    ELSE IF IsRateLimitText(e.msg) THEN ErrorResponse(e.msg, "RATE_LIMIT")
    ELSE IF Contains(e.msg, "model") THEN ErrorResponse(e.msg, "MODEL_ERROR")
    ELSE ErrorResponse(e.msg, "INTERNAL_ERROR")

BuildOutput(text, length, tokens) ==
    [NoOutput EXCEPT
        !.keys = {"script", "hook", "word_count", "estimated_duration", "tokens_used"},
        !.script = text, !.hook = extract_hook(text), !.word_count = count_words(text),
        !.estimated_duration = length, !.tokens_used = tokens]

\* line 420 binds the name generate_voice_script, local to generate(), to the
\* request's value; the name no longer denotes the module's function there
LocalGenerateVoiceScript(d) == d.generate_voice_script

\* no value decoded from JSON is callable
Callable(v) == v.t = "function"

NoCall == Failure(<<>>)

\* callee(...) at line 455: the function runs only when the callee is one
CallValue(callee, o) ==
    IF Callable(callee) THEN generate_voice_script(o)
    ELSE Raised(Exc("TypeError", <<Word(callee.t), Word("object is not callable")>>))

\* a handler that asks for the voice script whatever the request says
VoiceRequested_Always(d) == TRUE

\* if generate_voice_script:
VoiceRequested(d) == Truthy(d.generate_voice_script)

\* a try block that forgets the running total
VoiceSuccess_NoSum(out, total, r) ==
    [out EXCEPT !.keys = @ \cup {"voice_script", "voice_word_count"},
                !.voice_script = r.text, !.voice_word_count = count_words(r.text),
                !.tokens_used = r.tokens]

\* lines 463-466
VoiceSuccess(out, total, r) ==
    [out EXCEPT !.keys = @ \cup {"voice_script", "voice_word_count"},
                !.voice_script = r.text, !.voice_word_count = count_words(r.text),
                !.tokens_used = total + r.tokens]

\* an except clause that also leaves an empty voice_script behind
VoiceFailure_EmptyScript(out, e) ==
    [out EXCEPT !.keys = @ \cup {"voice_script", "voice_script_error"},
                !.voice_script_error = e.msg]

\* lines 467-470
VoiceFailure(out, e) ==
    [out EXCEPT !.keys = @ \cup {"voice_script_error"}, !.voice_script_error = e.msg]

AdapterCall(kind, max_tokens, o) == [kind |-> kind, max_tokens |-> max_tokens, result |-> o]

HandlerInputs ==
    {Dict(tp, l, tn, h, m, g) :
        tp \in {Absent, Str("cats")},
        l \in {Absent, List("20s"), Str("10s")} \cup {Str(x) : x \in VALID_LENGTHS},
        tn \in {Str("funny"), Str("angry"), List("funny")},
        h \in {Absent, Str("story"), List("story")},
        m \in {NoInt, Float(100)} \cup {Int_(LENGTH_TO_TOKENS[x]) : x \in VALID_LENGTHS},
        g \in {Absent, Bool(TRUE), Bool(FALSE), Str("false"), Str("")}}
    \cup {EmptyDict, NonDict("str", "abc"), NonDict("str", ""), NonDict("list", "abc")}

\* "input" missing from the event
NoInput == NonDict("absent", "")

Requests ==
    [http_key : {"", "secret", "wrong"},
     event_headers : {[kind |-> "absent", key |-> "<none>"],
                      [kind |-> "dict", key |-> "secret"],
                      [kind |-> "dict", key |-> "wrong"],
                      [kind |-> "str", key |-> "secret"],
                      [kind |-> "badstr", key |-> "secret"]},
     input : HandlerInputs \cup {NoInput}]

InitHandler ==
    /\ pc = "auth"
    /\ API_KEY \in {"", "secret"}
    /\ request \in Requests
    /\ input_data = Idle
    /\ calls = <<>> /\ script = <<>> /\ tokens_used = 0
    /\ output = NoOutput /\ response = NoOutput /\ voice_attempt = <<>>
    /\ arg = Idle /\ ret = Idle

Finish(resp) ==
    /\ response' = resp
    /\ pc' = "done"

AuthFail ==
    /\ pc = "auth"
    /\ ~validate_api_key(Headers(request))
    /\ Finish(ErrorResponse(<<Word("Invalid API key")>>, "AUTH_ERROR"))
    /\ UNCHANGED <<voice_attempt, arg, ret, API_KEY, request, input_data, calls, script,
                   tokens_used, output>>

AuthPass ==
    /\ pc = "auth"
    /\ validate_api_key(Headers(request))
    /\ pc' = "input"
    /\ UNCHANGED <<voice_attempt, arg, ret, API_KEY, request, input_data, calls, script,
                   tokens_used, output, response>>

\* input_data = event.get("input", {})
GetInput(r) == IF r.input = NoInput THEN EmptyDict ELSE r.input

InputMissing ==
    /\ pc = "input"
    /\ Falsy(GetInput(request))
    /\ input_data' = GetInput(request)
    /\ Finish(ErrorResponse(<<Word("Missing 'input' field")>>, "VALIDATION_ERROR"))
    /\ UNCHANGED <<voice_attempt, arg, ret, API_KEY, request, calls, script, tokens_used, output>>

InputPresent ==
    /\ pc = "input"
    /\ ~Falsy(GetInput(request))
    /\ input_data' = GetInput(request)
    /\ pc' = "validate"
    /\ UNCHANGED <<voice_attempt, arg, ret, API_KEY, request, calls, script, tokens_used,
                   output, response>>

ValidateRaises ==
    /\ pc = "validate"
    /\ validate_input(input_data).raised # ""
    /\ LET r == validate_input(input_data)
       IN Finish(HandlerError(Exc(r.raised, r.msg)))
    /\ UNCHANGED <<voice_attempt, arg, ret, API_KEY, request, input_data, calls, script,
                   tokens_used, output>>

ValidateRejects ==
    /\ pc = "validate"
    /\ validate_input(input_data).raised = ""
    /\ ~validate_input(input_data).ok
    /\ LET r == validate_input(input_data)
       IN Finish(ErrorResponse(r.msg, r.code))
    /\ UNCHANGED <<voice_attempt, arg, ret, API_KEY, request, input_data, calls, script,
                   tokens_used, output>>

ValidateAccepts ==
    /\ pc = "validate"
    /\ validate_input(input_data).raised = ""
    /\ validate_input(input_data).ok
    /\ pc' = "main"
    /\ UNCHANGED <<voice_attempt, arg, ret, API_KEY, request, input_data, calls, script,
                   tokens_used, output, response>>

\* a handler that calls the adapter once more after a failed main call
MainFails_Retry ==
    /\ pc = "main"
    /\ \E o \in AdapterOutcomes :
        LET r == generate_script(input_data.max_tokens.n, o)
        IN /\ r.raised
           /\ calls' = Append(calls, AdapterCall("main", input_data.max_tokens.n, o))
           /\ IF Len(calls) = 0 THEN pc' = "main" /\ response' = response
              ELSE Finish(HandlerError(r.exc))
    /\ UNCHANGED <<voice_attempt, arg, ret, API_KEY, request, input_data, script,
                   tokens_used, output>>

MainFails ==
    /\ pc = "main"
    /\ \E o \in AdapterOutcomes :
        LET r == generate_script(input_data.max_tokens.n, o)
        IN /\ r.raised
           /\ calls' = Append(calls, AdapterCall("main", input_data.max_tokens.n, o))
           /\ Finish(HandlerError(r.exc))
    /\ UNCHANGED <<voice_attempt, arg, ret, API_KEY, request, input_data, script, tokens_used, output>>

MainSucceeds ==
    /\ pc = "main"
    /\ \E o \in AdapterOutcomes :
        LET r == generate_script(input_data.max_tokens.n, o)
        IN /\ ~r.raised
           /\ calls' = Append(calls, AdapterCall("main", input_data.max_tokens.n, o))
           /\ script' = r.text
           /\ tokens_used' = r.tokens
           /\ output' = BuildOutput(r.text, input_data.length.s, r.tokens)
    /\ pc' = "voice"
    /\ UNCHANGED <<voice_attempt, arg, ret, API_KEY, request, input_data, response>>

VoiceSkipped ==
    /\ pc = "voice"
    /\ ~VoiceRequested(input_data)
    /\ pc' = "return"
    /\ UNCHANGED <<voice_attempt, arg, ret, API_KEY, request, input_data, calls, script,
                   tokens_used, output, response>>

\* the try block of lines 454-470: the call expression, then either the
\* assignments of lines 463-466 or the except clause
VoiceAttempt ==
    /\ pc = "voice"
    /\ VoiceRequested(input_data)
    /\ LET callee == LocalGenerateVoiceScript(input_data)
       IN \E o \in (IF Callable(callee) THEN AdapterOutcomes ELSE {NoCall}) :
            LET r == CallValue(callee, o)
            IN /\ calls' = IF Callable(callee)
                           THEN Append(calls, AdapterCall("voice", VOICE_MAX_TOKENS, o))
                           ELSE calls
               /\ voice_attempt' = <<r>>
               /\ output' = IF r.raised THEN VoiceFailure(output, r.exc)
                            ELSE VoiceSuccess(output, tokens_used, r)
               /\ tokens_used' = IF r.raised THEN tokens_used ELSE tokens_used + r.tokens
    /\ pc' = "return"
    /\ UNCHANGED <<arg, ret, API_KEY, request, input_data, script, response>>

Return ==
    /\ pc = "return"
    /\ Finish(output)
    /\ UNCHANGED <<voice_attempt, arg, ret, API_KEY, request, input_data, calls, script,
                   tokens_used, output>>

Next ==
    \/ AuthFail \/ AuthPass
    \/ InputMissing \/ InputPresent
    \/ ValidateRaises \/ ValidateRejects \/ ValidateAccepts
    \/ MainFails \/ MainSucceeds
    \/ VoiceSkipped \/ VoiceAttempt
    \/ Return

Spec == InitHandler /\ [][Next]_vars

(***************************************************************************)
(* Properties of validate_input                                            *)
(***************************************************************************)
\* the canonical token budget of a length, as the specification tabulates it
Canonical(l) ==
    CASE l = "20s" -> 100 [] l = "30s" -> 150 [] l = "45s" -> 225 [] l = "60s" -> 300

\* topic, length, tone and hook style of a request map are valid
FieldsValid(d) ==
    /\ d.t = "dict"
    /\ d.topic.t = "str" /\ d.topic.s # ""
    /\ d.length.t = "str" /\ d.length.s \in {"20s", "30s", "45s", "60s"}
    /\ d.tone.t = "str" /\ d.tone.s \in VALID_TONES
    /\ d.hook_style.t = "str" /\ d.hook_style.s \in VALID_HOOK_STYLES

\* C1: for a request map whose topic, length, tone and hook style are valid,
\* validate_input accepts exactly when max_tokens is the integer that is the
\* canonical budget of the length; any other positive integer is returned as
\* (False, message naming the expected value, "VALIDATION_ERROR"), and a
\* mismatching value is never accepted (no silent correction).
C1_CanonicalBudget ==
    (pc = "returned" /\ FieldsValid(arg)) =>
        /\ ret.raised = ""
        /\ ret.ok <=> (arg.max_tokens.t = "int"
                        /\ arg.max_tokens.n = Canonical(arg.length.s))
        /\ (arg.max_tokens.t = "int" /\ arg.max_tokens.n > 0
              /\ arg.max_tokens.n # Canonical(arg.length.s)) =>
                ret = [raised |-> "", ok |-> FALSE, code |-> "VALIDATION_ERROR",
                       msg |-> <<Word("Field 'max_tokens' must be"),
                                 Num(Canonical(arg.length.s)),
                                 Word("for length"), Word(arg.length.s)>>]

\* C1 witness: max_tokens 100 with length "30s" was rejected naming 150
C1_Witness ==
    /\ pc = "returned" /\ FieldsValid(arg)
    /\ arg.length.s = "30s" /\ arg.max_tokens = Int_(100)
    /\ ~ret.ok /\ ret.msg[2] = Num(150)

\* the rules of the validator in the order the specification lists them
RuleViolated(k, d) ==
    CASE k = 1 -> d.t # "dict"
      [] k = 2 -> d.topic.t = "absent" \/ ~Truthy(d.topic)
      [] k = 3 -> ~InSet(d.length, {"20s", "30s", "45s", "60s"})
      [] k = 4 -> ~InSet(d.tone, VALID_TONES)
      [] k = 5 -> ~InSet(d.hook_style, VALID_HOOK_STYLES)
      [] k = 6 -> ~(d.max_tokens.t \in {"int", "bool"} /\ d.max_tokens.n > 0)
      [] k = 7 -> /\ InSet(d.length, {"20s", "30s", "45s", "60s"})
                  /\ d.max_tokens.n # Canonical(d.length.s)

RuleField(k) ==
    CASE k = 1 -> "input" [] k = 2 -> "topic" [] k = 3 -> "length" [] k = 4 -> "tone"
      [] k = 5 -> "hook_style" [] k \in {6, 7} -> "max_tokens"

FirstViolated(d) ==
    LET bad == {k \in 1..7 : RuleViolated(k, d) /\ \A j \in 1..(k - 1) : ~RuleViolated(j, d)}
    IN IF bad = {} THEN 0 ELSE CHOOSE k \in bad : TRUE

\* the field a message names
NamedField(m) ==
    LET head == m[1].s
    IN CASE head = "Input must be a dictionary" -> "input"
         [] head = "Field 'topic' is required and cannot be empty" -> "topic"
         [] head \in {"Field 'length' is required", "Field 'length' must be one of"} -> "length"
         [] head \in {"Field 'tone' is required", "Field 'tone' must be one of"} -> "tone"
         [] head \in {"Field 'hook_style' is required",
                      "Field 'hook_style' must be one of"} -> "hook_style"
         [] head \in {"Field 'max_tokens' is required",
                      "Field 'max_tokens' must be a positive integer",
                      "Field 'max_tokens' must be"} -> "max_tokens"
         [] OTHER -> "?"

FirstFailureWins(d, r) ==
    /\ r.raised = ""
    /\ r.ok <=> FirstViolated(d) = 0
    /\ ~r.ok => /\ r.code = "VALIDATION_ERROR"
                /\ NamedField(r.msg) = RuleField(FirstViolated(d))

\* C7: validate_input checks mapping-type, topic, length, tone, hook style,
\* max_tokens positivity and max_tokens canonical value in this order and
\* stops at the first failure: the returned message names the field of the
\* earliest violated rule and every rejection carries VALIDATION_ERROR.
C7_FirstFailureWins ==
    pc = "returned" => FirstFailureWins(arg, ret)

\* what does hold: the same, for inputs whose length, tone and hook style
\* are hashable values (or are never looked up)
C7_HoldsWhenHashable ==
    (pc = "returned" /\ ret.raised = "") => FirstFailureWins(arg, ret)

(***************************************************************************)
(* Properties of extract_hook                                              *)
(***************************************************************************)
\* the text up to and including its first period; the empty text when it
\* has no period
UpToFirstPeriod(text) ==
    LET dots == {i \in 1..Len(text) : text[i] = "."}
    IN IF dots = {} THEN <<>>
       ELSE SubSeq(text, 1, CHOOSE i \in dots : \A j \in dots : i <= j)

\* the hook the specification describes
DescribedHook(text) ==
    LET lines == Split(text, "\n")
        full == {i \in 1..Len(lines) : Strip(lines[i]) # <<>>}
    IN IF full # {} THEN Strip(lines[CHOOSE i \in full : \A j \in full : i <= j])
       ELSE IF Strip(UpToFirstPeriod(text)) # <<>> THEN Strip(UpToFirstPeriod(text))
       ELSE Prefix(text, 100)

\* C8: extract_hook returns the first non-empty line; with no non-empty line
\* the text up to the first period, trimmed; and when that is empty the
\* first 100 characters of the raw text, so that the hook of the empty text
\* is the empty text.
C8_HookFallbacks ==
    pc = "returned" => ret = DescribedHook(arg)

\* what does hold: a text with a non-empty line gives that line, stripped,
\* and every other text (the empty one too) gives the one-character hook "."
C8_HookAsCoded ==
    pc = "returned" =>
        LET lines == Split(arg, "\n")
            full == {i \in 1..Len(lines) : Strip(lines[i]) # <<>>}
        IN IF full # {} THEN ret = Strip(lines[CHOOSE i \in full : \A j \in full : i <= j])
           ELSE ret = <<".">>

(***************************************************************************)
(* Properties of build_main_prompt                                         *)
(***************************************************************************)
\* the phrase the template places between "Maintain a " and " tone throughout"
InsertedTonePhrase(prompt) ==
    LET at == CHOOSE i \in 1..Len(prompt) : prompt[i] = "\n- Maintain a "
    IN prompt[at + 1]

\* C9: the tone instruction comes from the fixed 6-entry tone map, and for
\* every tone outside the map the phrase inserted into the prompt is
\* "Use a balanced, informative tone", the phrase of tone "neutral".
C9_ToneFallback ==
    pc = "returned" =>
        /\ Cardinality(DOMAIN tone_instructions) = 6
        /\ arg.tone \in VALID_TONES => InsertedTonePhrase(ret) = tone_instructions[arg.tone]
        /\ arg.tone \notin VALID_TONES =>
              /\ InsertedTonePhrase(ret) = "Use a balanced, informative tone"
              /\ InsertedTonePhrase(ret) = tone_instructions["neutral"]

\* what does hold: a tone outside the map inserts the bare word "neutral"
C9_ToneAsCoded ==
    pc = "returned" =>
        InsertedTonePhrase(ret) =
            IF arg.tone \in VALID_TONES THEN tone_instructions[arg.tone] ELSE "neutral"

(***************************************************************************)
(* Properties of the request handler                                       *)
(***************************************************************************)
\* a shared secret is configured and the request carries no matching key
LacksMatchingKey == API_KEY # "" /\ Headers(request) # API_KEY

InputMissingOrEmpty == Falsy(GetInput(request))

SchemaInvalid == FirstViolated(GetInput(request)) # 0

ValidRequest == ~LacksMatchingKey /\ ~InputMissingOrEmpty /\ ~SchemaInvalid

WantsVoice == Truthy(GetInput(request).generate_voice_script)

\* the main adapter call returned a text within the requested budget
MainSucceeded ==
    /\ Len(calls) >= 1
    /\ calls[1].kind = "main"
    /\ calls[1].result.kind = "ok"
    /\ calls[1].result.tokens <= calls[1].max_tokens

\* C2: the adapter is invoked only after the auth check passed and
\* validate_input accepted the input; a request without a matching
\* x-api-key while a secret is configured ends with AUTH_ERROR, one with
\* missing, empty or schema-invalid input ends with VALIDATION_ERROR, and in
\* both cases no adapter call has been made when the response is returned.
C2_ChecksBeforeAdapter ==
    /\ calls # <<>> => (~LacksMatchingKey /\ ~InputMissingOrEmpty /\ ~SchemaInvalid)
    /\ (pc = "done" /\ LacksMatchingKey) =>
            (response.code = "AUTH_ERROR" /\ calls = <<>>)
    /\ (pc = "done" /\ ~LacksMatchingKey /\ (InputMissingOrEmpty \/ SchemaInvalid)) =>
            (response.code = "VALIDATION_ERROR" /\ calls = <<>>)

\* what does hold: no adapter call before both checks pass, none at all when
\* one of them fails; the code of a failed validation is VALIDATION_ERROR
\* unless the membership test raised, and then it is INTERNAL_ERROR
C2_NoCallUnlessChecked ==
    /\ calls # <<>> => (~LacksMatchingKey /\ ~InputMissingOrEmpty /\ ~SchemaInvalid)
    /\ (pc = "done" /\ LacksMatchingKey) =>
            (response.code = "AUTH_ERROR" /\ calls = <<>>)
    /\ (pc = "done" /\ ~LacksMatchingKey /\ (InputMissingOrEmpty \/ SchemaInvalid)) =>
            /\ calls = <<>>
            /\ response.keys = {"error", "code"}
            /\ response.code =
                 IF ~InputMissingOrEmpty /\ validate_input(GetInput(request)).raised # ""
                 THEN "INTERNAL_ERROR" ELSE "VALIDATION_ERROR"

\* the call expression of the voice script was evaluated and raised
VoiceFailed == voice_attempt # <<>> /\ voice_attempt[1].raised

\* C3: a valid request that asks for the voice script, whose main generation
\* succeeds and whose voice generation fails, gets a success response with
\* script, hook, word_count and voice_script_error, without voice_script,
\* error or code, and with tokens_used equal to the main call's usage.
C3_VoiceFailureIsolated ==
    (pc = "done" /\ ValidRequest /\ WantsVoice /\ MainSucceeded /\ VoiceFailed) =>
        /\ {"script", "hook", "word_count", "voice_script_error"} \subseteq response.keys
        /\ response.keys \cap {"voice_script", "error", "code"} = {}
        /\ response.tokens_used = calls[1].result.tokens

\* C3 witness: the voice generation raised after a successful main call
C3_Witness ==
    /\ pc = "done" /\ ValidRequest /\ WantsVoice /\ MainSucceeded /\ VoiceFailed
    /\ calls[1].result.tokens > 0
    /\ response.voice_script_error # <<>>

\* C4: a valid request that asks for the voice script and whose main
\* generation succeeds makes a second adapter call, for the voice prompt,
\* with token budget 400; when that call succeeds too the response has
\* voice_script and voice_word_count, no voice_script_error, and tokens_used
\* is the main usage plus the voice usage.
C4_VoiceSuccessAccumulates ==
    (pc = "done" /\ ValidRequest /\ WantsVoice /\ MainSucceeded) =>
        /\ Len(calls) = 2
        /\ calls[2].kind = "voice"
        /\ calls[2].max_tokens = 400
        /\ calls[2].result.kind = "ok" =>
              /\ {"voice_script", "voice_word_count"} \subseteq response.keys
              /\ "voice_script_error" \notin response.keys
              /\ response.tokens_used = calls[1].result.tokens + calls[2].result.tokens

\* what does hold: the adapter is not called for the voice prompt at all;
\* the response carries voice_script_error and the main usage only
C4_VoiceNeverGenerated ==
    (pc = "done" /\ ValidRequest /\ WantsVoice /\ MainSucceeded) =>
        /\ Len(calls) = 1
        /\ "voice_script_error" \in response.keys
        /\ response.voice_script_error[2] = Word("object is not callable")
        /\ response.keys \cap {"voice_script", "voice_word_count"} = {}
        /\ response.tokens_used = calls[1].result.tokens

\* C5: when the main adapter call reports more tokens than the requested
\* max_tokens, the request fails with VALIDATION_ERROR and the response has
\* no partial result.
C5_OverrunIsValidationError ==
    (pc = "done" /\ Len(calls) >= 1 /\ calls[1].result.kind = "ok"
       /\ calls[1].result.tokens > calls[1].max_tokens) =>
        /\ response.code = "VALIDATION_ERROR"
        /\ response.keys \cap {"script", "hook", "word_count", "tokens_used"} = {}

\* what does hold: the overrun is re-raised by generate_script as a plain
\* Exception, so it ends as MODEL_ERROR, or as RATE_LIMIT when the digits of
\* the usage read 429; the response is {error, code} either way
C5_OverrunAsCoded ==
    (pc = "done" /\ Len(calls) >= 1 /\ calls[1].result.kind = "ok"
       /\ calls[1].result.tokens > calls[1].max_tokens) =>
        /\ response.code =
             IF Has429(calls[1].result.tokens) THEN "RATE_LIMIT" ELSE "MODEL_ERROR"
        /\ response.keys = {"error", "code"}
        /\ Len(calls) = 1

\* the adapter failure texts that contain "rate limit" (in any case) or "429"
ThrottleTexts ==
    {<<Word("Rate limit reached for requests")>>, <<Word("RATE LIMIT")>>,
     <<Word("Error code: 429")>>}

\* C6: when the main adapter call fails the request is aborted with exactly
\* {error, code}: RATE_LIMIT when the failure text contains "rate limit"
\* (case-insensitive) or "429", MODEL_ERROR for every other failure, and the
\* voice generation is not attempted.
C6_MainFailureAborts ==
    (pc = "done" /\ Len(calls) >= 1 /\ calls[1].result.kind = "fail") =>
        /\ response.keys = {"error", "code"}
        /\ response.code =
             IF calls[1].result.msg \in ThrottleTexts THEN "RATE_LIMIT" ELSE "MODEL_ERROR"
        /\ Len(calls) = 1
        /\ voice_attempt = <<>>

\* C6 witness: a connection error of a request that asked for the voice script
C6_Witness ==
    /\ pc = "done" /\ WantsVoice /\ Len(calls) = 1
    /\ calls[1].result = Failure(<<Word("Connection error.")>>)
    /\ response.code = "MODEL_ERROR"

\* C10: at most one main and one voice adapter call per invocation and no
\* retry after a failure; a voice call only when generate_voice_script is
\* truthy and only after the main call returned within its budget; and the
\* main usage is in tokens_used before any voice usage is added.
C10_SequentialNoRetry ==
    /\ Cardinality({i \in 1..Len(calls) : calls[i].kind = "main"}) <= 1
    /\ Cardinality({i \in 1..Len(calls) : calls[i].kind = "voice"}) <= 1
    /\ \A i \in 1..Len(calls) :
          /\ i = 1 => calls[i].kind = "main"
          /\ calls[i].kind = "voice" => (i = 2 /\ WantsVoice /\ MainSucceeded)
    /\ (Len(calls) >= 1 /\ ~MainSucceeded) => (Len(calls) = 1 /\ voice_attempt = <<>>)
    /\ voice_attempt # <<>> => (WantsVoice /\ MainSucceeded)
    /\ (pc = "voice" \/ voice_attempt # <<>>) =>
          /\ "tokens_used" \in output.keys
          /\ output.tokens_used >= calls[1].result.tokens
          /\ tokens_used >= calls[1].result.tokens
    /\ pc = "voice" =>
          /\ output.tokens_used = calls[1].result.tokens
          /\ tokens_used = calls[1].result.tokens

\* C10 witness: a finished invocation that made its main call and then went
\* through the voice step with the main usage already recorded
C10_Witness ==
    /\ pc = "done" /\ WantsVoice /\ voice_attempt # <<>>
    /\ Len(calls) >= 1 /\ calls[1].kind = "main" /\ calls[1].result.tokens > 0
    /\ response.tokens_used >= calls[1].result.tokens

====
